---- MODULE Spec2Model ----
(***************************************************************************)
(* Reverse-mode scalar autodiff of learnrustgrad.                          *)
(*                                                                         *)
(* The repository holds two programs: the library src/scalar.rs (struct    *)
(* Scalar with the operations Add, Mul, Div, Powi, Tanh and calc_grad) and *)
(* the binary src/main.rs, which carries its own copy of Scalar (Add, Mul, *)
(* Tanh only) and a straight-line main().  The model has one driver for    *)
(* each: "lib" is an arbitrary caller of the public operations of          *)
(* scalar.rs, "main" is main() of main.rs executed statement by statement. *)
(*                                                                         *)
(* f32 values are modelled by sign/numerator/denominator triples that      *)
(* carry the exact result of every operation, with the IEEE-754 special    *)
(* values (signed zero, infinities, NaN).  The inputs are small, so that   *)
(* sums and products are the exact f32 results; quotients by a value that  *)
(* is not a power of two are kept exact instead of being rounded to 24     *)
(* bits, and tanh is tabulated to three decimals.                          *)
(***************************************************************************)
EXTENDS Integers, Sequences, FiniteSets, TLC

VARIABLES driver, pc, nodes, panicked, root, applied

vars == <<driver, pc, nodes, panicked, root, applied>>

(***************************************************************************)
(* Bounds of the model.                                                    *)
(***************************************************************************)
\* Largest number of Scalars the lib caller builds.
MaxNodes == 3
\* Largest number of calc_grad calls the lib caller makes.
MaxCalls == 2
\* Largest numerator and denominator of a value the lib caller operates on.
MaxMag == 16

(***************************************************************************)
(* f32                                                                     *)
(***************************************************************************)
Num(s, n, d) == [s |-> s, n |-> n, d |-> d]

Zero == Num(1, 0, 1)

NegZero == Num(-1, 0, 1)

One == Num(1, 1, 1)

Inf(s) == Num(s, 1, 0)

NaN == Num(1, 0, 0)

IsNaN(x) == x.n = 0 /\ x.d = 0

IsInf(x) == x.n = 1 /\ x.d = 0

IsZero(x) == x.n = 0 /\ x.d = 1

IsFinite(x) == x.d > 0

RECURSIVE GCD(_, _)
GCD(a, b) == IF b = 0 THEN a ELSE GCD(b, a % b)

\* The value s * n / d in lowest terms (n >= 0, d > 0).
Rat(s, n, d) == IF n = 0 THEN Num(s, 0, 1) ELSE Num(s, n \div GCD(n, d), d \div GCD(n, d))

\* An f32 literal with an integer value.
F(i) == IF i < 0 THEN Num(-1, -i, 1) ELSE Num(1, i, 1)

\* An f32 literal a / b, b > 0.
Q(a, b) == IF a < 0 THEN Rat(-1, -a, b) ELSE Rat(1, a, b)

Abs(i) == IF i < 0 THEN -i ELSE i

FNeg(x) == IF IsNaN(x) THEN NaN ELSE Num(-x.s, x.n, x.d)

FAdd(x, y) ==
    IF IsNaN(x) \/ IsNaN(y) THEN NaN
    ELSE IF IsInf(x) /\ IsInf(y) THEN (IF x.s = y.s THEN x ELSE NaN)
    ELSE IF IsInf(x) THEN x
    ELSE IF IsInf(y) THEN y
    ELSE LET num == x.s * x.n * y.d + y.s * y.n * x.d
             den == x.d * y.d
         IN  IF num = 0
             THEN (IF IsZero(x) /\ IsZero(y) /\ x.s = -1 /\ y.s = -1 THEN NegZero ELSE Zero)
             ELSE Rat(IF num < 0 THEN -1 ELSE 1, Abs(num), den)

FSub(x, y) == FAdd(x, FNeg(y))

FMul(x, y) ==
    IF IsNaN(x) \/ IsNaN(y) THEN NaN
    ELSE IF (IsInf(x) /\ IsZero(y)) \/ (IsZero(x) /\ IsInf(y)) THEN NaN
    ELSE IF IsInf(x) \/ IsInf(y) THEN Inf(x.s * y.s)
    ELSE Rat(x.s * y.s, x.n * y.n, x.d * y.d)

FDiv(x, y) ==
    IF IsNaN(x) \/ IsNaN(y) THEN NaN
    ELSE IF (IsInf(x) /\ IsInf(y)) \/ (IsZero(x) /\ IsZero(y)) THEN NaN
    ELSE IF IsInf(x) \/ IsZero(y) THEN Inf(x.s * y.s)
    ELSE IF IsInf(y) THEN Num(x.s * y.s, 0, 1)
    ELSE Rat(x.s * y.s, x.n * y.d, x.d * y.n)

\* f32::powi: repeated multiplication, and the reciprocal for a negative exponent.
RECURSIVE FPowi(_, _)
FPowi(x, n) ==
    IF n = 0 THEN One
    ELSE IF n < 0 THEN FDiv(One, FPowi(x, -n))
    ELSE FMul(x, FPowi(x, n - 1))

\* tanh of the magnitudes the model takes it of, to three decimals.
TanhTable ==
    [m \in {<<1, 2>>, <<1, 1>>, <<2, 1>>, <<4407, 5000>>} |->
        CASE m = <<1, 2>> -> <<231, 500>>
          [] m = <<1, 1>> -> <<381, 500>>
          [] m = <<2, 1>> -> <<241, 250>>
          [] m = <<4407, 5000>> -> <<707, 1000>>]

InTanhDomain(x) == ~IsFinite(x) \/ IsZero(x) \/ <<x.n, x.d>> \in DOMAIN TanhTable

\* f32::tanh: odd, tanh(+-0) = +-0, tanh(+-inf) = +-1.
FTanh(x) ==
    IF IsNaN(x) THEN NaN
    ELSE IF IsInf(x) THEN Num(x.s, 1, 1)
    ELSE IF IsZero(x) THEN x
    ELSE Num(x.s, TanhTable[<<x.n, x.d>>][1], TanhTable[<<x.n, x.d>>][2])

\* |x - t| <= tol for finite x, t and tol.
Within(x, t, tol) ==
    LET diff == FSub(x, t)
    IN  IsFinite(x) /\ diff.n * tol.d <= tol.n * diff.d

Small(x) == x.n <= MaxMag /\ x.d <= MaxMag

(***************************************************************************)
(* struct Scalar and its constructors                                      *)
(***************************************************************************)
\* Option::None of lhs_parent / rhs_parent; Some(&s) is the position of s in nodes.
NoParent == 0

\* enum ScalarOp; i is the exponent of Powi(i32) and 0 for the other variants.
ScalarOp(tag, i) == [tag |-> tag, i |-> i]

Scalar(val, grad, lhs_parent, rhs_parent, op) ==
    [val |-> val, grad |-> grad, lhs_parent |-> lhs_parent, rhs_parent |-> rhs_parent, op |-> op]

New(val) == Scalar(val, Zero, NoParent, NoParent, ScalarOp("None", 0))

\* new_with_parents with the gradient starting at 1.0 instead of 0.0.
NewWithParentsSeeded(val, lhs_parent, rhs_parent, op) == Scalar(val, One, lhs_parent, rhs_parent, op)

NewWithParents(val, lhs_parent, rhs_parent, op) == Scalar(val, Zero, lhs_parent, rhs_parent, op)

(***************************************************************************)
(* The operators of scalar.rs; ns is the sequence of the Scalars alive,    *)
(* l and r are positions in it, c is a plain f32.                          *)
(***************************************************************************)
Add(ns, l, r) == NewWithParents(FAdd(ns[l].val, ns[r].val), l, r, ScalarOp("Add", 0))

AddF32(ns, l, c) == NewWithParents(FAdd(ns[l].val, c), l, NoParent, ScalarOp("Add", 0))

F32Add(ns, c, r) == NewWithParents(FAdd(c, ns[r].val), NoParent, r, ScalarOp("Add", 0))

Mul(ns, l, r) == NewWithParents(FMul(ns[l].val, ns[r].val), l, r, ScalarOp("Mul", 0))

MulF32(ns, l, c) == NewWithParents(FMul(ns[l].val, c), l, NoParent, ScalarOp("Mul", 0))

F32Mul(ns, c, r) == NewWithParents(FMul(c, ns[r].val), NoParent, r, ScalarOp("Mul", 0))

Tanh(ns, l) == NewWithParents(FTanh(ns[l].val), l, NoParent, ScalarOp("Tanh", 0))

Powi(ns, l, n) == NewWithParents(FPowi(ns[l].val, n), l, NoParent, ScalarOp("Powi", n))

\* div with the quotient taken the wrong way round.
DivReversed(ns, l, r) == NewWithParents(FDiv(ns[r].val, ns[l].val), l, r, ScalarOp("Div", 0))

Div(ns, l, r) == NewWithParents(FDiv(ns[l].val, ns[r].val), l, r, ScalarOp("Div", 0))

(***************************************************************************)
(* calc_grad                                                               *)
(***************************************************************************)
\* *p.grad.borrow_mut() = g
SetGrad(ns, p, g) == [ns EXCEPT ![p].grad = g]

\* The contribution assigned instead of added.
AccumulateOverwrite(ns, p, c) == SetGrad(ns, p, c)

\* let old = p.grad.borrow().clone(); *p.grad.borrow_mut() = old + c
Accumulate(ns, p, c) == SetGrad(ns, p, FAdd(ns[p].grad, c))

\* Option::unwrap of a parent that is None panics; the unwraps of an arm come
\* before its first write.
UnwrapPanics(ns, i) ==
    \/ ns[i].op.tag \in {"Add", "Mul", "Div"}
         /\ (ns[i].lhs_parent = NoParent \/ ns[i].rhs_parent = NoParent)
    \/ ns[i].op.tag \in {"Tanh", "Powi"} /\ ns[i].lhs_parent = NoParent

\* Scalar::calc_grad of scalar.rs on ns[i], all unwraps succeeding.
CalcGrad(ns, i) ==
    LET lhs == ns[i].lhs_parent
        rhs == ns[i].rhs_parent
        tag == ns[i].op.tag
    IN  CASE tag = "Add" ->
               LET s1 == Accumulate(ns, lhs, ns[i].grad)
               IN  Accumulate(s1, rhs, s1[i].grad)
          [] tag = "Mul" ->
               LET s1 == Accumulate(ns, lhs, FDiv(ns[i].grad, ns[rhs].val))
               IN  Accumulate(s1, rhs,
                     FMul(FMul(s1[i].grad, s1[lhs].val), FPowi(s1[rhs].val, -2)))
          [] tag = "Div" ->
               LET s1 == Accumulate(ns, lhs, FMul(ns[i].grad, ns[rhs].val))
               IN  Accumulate(s1, rhs, FMul(s1[i].grad, s1[lhs].val))
          [] tag = "Tanh" ->
               Accumulate(ns, lhs, FMul(FSub(One, FMul(ns[i].val, ns[i].val)), ns[i].grad))
          [] tag = "Powi" ->
               Accumulate(ns, lhs, FMul(FPowi(ns[lhs].val, ns[i].op.i - 1), ns[i].grad))
          [] OTHER -> ns

\* main.rs with the calc_grad of scalar.rs.
MainCalcGradOfLib(ns, i) == CalcGrad(ns, i)

\* Scalar::calc_grad of main.rs (its ScalarOp has None, Add, Mul and Tanh).
MainCalcGrad(ns, i) ==
    LET lhs == ns[i].lhs_parent
        rhs == ns[i].rhs_parent
        tag == ns[i].op.tag
    IN  CASE tag = "Add" ->
               LET s1 == Accumulate(ns, lhs, ns[i].grad)
               IN  Accumulate(s1, rhs, s1[i].grad)
          [] tag = "Mul" ->
               LET s1 == Accumulate(ns, lhs, FMul(ns[i].grad, ns[rhs].val))
               IN  Accumulate(s1, rhs, FMul(s1[i].grad, s1[lhs].val))
          [] tag = "Tanh" ->
               Accumulate(ns, lhs, FMul(FSub(One, FMul(ns[i].val, ns[i].val)), ns[i].grad))
          [] OTHER -> ns

(***************************************************************************)
(* State                                                                   *)
(*   driver    "lib": a caller of scalar.rs; "main": main() of main.rs     *)
(*   pc        the statement main() is at (position in MainProg)           *)
(*   nodes     the Scalars alive, in creation order; a parent reference is *)
(*             the position of the parent                                  *)
(*   panicked  the Scalar whose calc_grad panicked on an unwrap (the       *)
(*             program has aborted), 0 while none has                      *)
(*   root      the Scalar whose grad was set to 1.0, 0 before that         *)
(*   applied   history: the calc_grad calls that returned, in order, each  *)
(*             with the Scalar n it was called on and the grad g of n then *)
(***************************************************************************)
Init ==
    /\ driver \in {"lib", "main"}
    /\ pc = 1
    /\ nodes = <<>>
    /\ panicked = 0
    /\ root = 0
    /\ applied = <<>>

(***************************************************************************)
(* driver = "lib": a caller of scalar.rs.  It builds Scalars with any of   *)
(* the operations, sets the grad of one of them (the root) to 1.0, and     *)
(* calls calc_grad on Scalars of the root's graph in an order of its own   *)
(* choosing.                                                               *)
(***************************************************************************)
\* The f32 values the caller passes to Scalar::new.
LibValues == {F(0), F(-2)}

\* The plain f32 operands the caller passes to Add<f32> / Mul<f32>.
LibConsts == {F(2)}

\* The exponents the caller passes to powi.
LibExps == {-1, 2}

Ids == 1..Len(nodes)

CanBuild == driver = "lib" /\ panicked = 0 /\ Len(nodes) < MaxNodes

Push(s) ==
    /\ nodes' = Append(nodes, s)
    /\ UNCHANGED <<driver, pc, panicked, root, applied>>

OpNew(v) == CanBuild /\ Push(New(v))

OpAdd(l, r) ==
    CanBuild /\ Small(nodes[l].val) /\ Small(nodes[r].val) /\ Push(Add(nodes, l, r))

OpAddF32(l, c) == CanBuild /\ Small(nodes[l].val) /\ Push(AddF32(nodes, l, c))

OpF32Add(c, r) == CanBuild /\ Small(nodes[r].val) /\ Push(F32Add(nodes, c, r))

OpMul(l, r) ==
    CanBuild /\ Small(nodes[l].val) /\ Small(nodes[r].val) /\ Push(Mul(nodes, l, r))

OpMulF32(l, c) == CanBuild /\ Small(nodes[l].val) /\ Push(MulF32(nodes, l, c))

OpF32Mul(c, r) == CanBuild /\ Small(nodes[r].val) /\ Push(F32Mul(nodes, c, r))

OpTanh(l) == CanBuild /\ InTanhDomain(nodes[l].val) /\ Push(Tanh(nodes, l))

OpPowi(l, n) == CanBuild /\ Small(nodes[l].val) /\ Push(Powi(nodes, l, n))

OpDiv(l, r) ==
    CanBuild /\ Small(nodes[l].val) /\ Small(nodes[r].val) /\ Push(Div(nodes, l, r))

\* *s.grad.borrow_mut() = 1.0, done once, on the Scalar chosen as root.
Seed(i) ==
    /\ driver = "lib" /\ panicked = 0 /\ root = 0
    /\ nodes' = SetGrad(nodes, i, One)
    /\ root' = i
    /\ UNCHANGED <<driver, pc, panicked, applied>>

Parents(ns, i) == {ns[i].lhs_parent, ns[i].rhs_parent} \ {NoParent}

\* The Scalars reachable from ns[i] by parent references, ns[i] included.
RECURSIVE Reach(_, _)
Reach(ns, i) ==
    IF i = NoParent THEN {}
    ELSE {i} \cup Reach(ns, ns[i].lhs_parent) \cup Reach(ns, ns[i].rhs_parent)

\* The values calc_grad on ns[i] computes with are within MaxMag.
OperandsSmall(ns, i) ==
    /\ Small(ns[i].grad)
    /\ \A p \in Parents(ns, i) : Small(ns[p].val) /\ Small(ns[p].grad)

Call(ns, i) == [n |-> i, g |-> ns[i].grad]

\* s.calc_grad() on a Scalar of the root's graph.
CalcGradCall(i) ==
    /\ driver = "lib" /\ panicked = 0 /\ Len(applied) < MaxCalls
    /\ root # 0 /\ i \in Reach(nodes, root)
    /\ OperandsSmall(nodes, i)
    /\ IF UnwrapPanics(nodes, i)
       THEN /\ panicked' = i
            /\ UNCHANGED <<nodes, applied>>
       ELSE /\ nodes' = CalcGrad(nodes, i)
            /\ applied' = Append(applied, Call(nodes, i))
            /\ UNCHANGED panicked
    /\ UNCHANGED <<driver, pc, root>>

(***************************************************************************)
(* driver = "main": fn main() of main.rs                                   *)
(***************************************************************************)
Ins(k, a, b, v) == [k |-> k, a |-> a, b |-> b, v |-> v]

\* The bias 6.8813735870195432 of the neuron, to four decimals.
MainBias == Q(34407, 5000)

\* The statements up to the seeding of o.  A println! or print_tree only reads
\* (the Scalars it builds in its arguments are dropped with the statement).
\* Positions: a 1, b 2, c 3, d 4, e 5, f 6, g 7, h 8, x1 9, x2 10, w1 11, w2 12,
\* b 13, x1w1 14, x2w2 15, x1w1x2w2 16, n 17, o 18.
MainBuild ==
    << Ins("new", 0, 0, F(2)), Ins("new", 0, 0, F(1)), Ins("print", 0, 0, Zero),
       Ins("add", 1, 2, Zero), Ins("print", 0, 0, Zero),
       Ins("addf32", 3, 0, F(2)), Ins("new", 0, 0, F(10)), Ins("mul", 4, 5, Zero),
       Ins("f32mul", 0, 6, Q(1, 100)), Ins("tanh", 7, 0, Zero), Ins("print", 0, 0, Zero),
       Ins("new", 0, 0, F(2)), Ins("new", 0, 0, F(0)), Ins("new", 0, 0, F(-3)),
       Ins("new", 0, 0, F(1)), Ins("new", 0, 0, MainBias),
       Ins("mul", 9, 11, Zero), Ins("mul", 10, 12, Zero), Ins("add", 14, 15, Zero),
       Ins("add", 16, 13, Zero), Ins("tanh", 17, 0, Zero),
       Ins("seed", 18, 0, One) >>

\* The calls of main() with x1w1x2w2.calc_grad() moved before n.calc_grad().
MainCalcOrderSwapped == <<18, 16, 17, 14, 15, 13, 12, 11, 10, 9>>

\* The Scalars main() calls calc_grad on, in the order of the calls:
\* o, n, x1w1x2w2, x1w1, x2w2, b, w2, w1, x2, x1.
MainCalcOrder == <<18, 17, 16, 14, 15, 13, 12, 11, 10, 9>>

MainProg ==
    MainBuild
      \o [k \in 1..Len(MainCalcOrder) |-> Ins("calc", MainCalcOrder[k], 0, Zero)]
      \o << Ins("print", 0, 0, Zero) >>

MainDone == driver = "main" /\ pc = Len(MainProg) + 1

\* The Scalar the statement ins builds.
MainBuilt(ns, ins) ==
    CASE ins.k = "new" -> New(ins.v)
      [] ins.k = "add" -> Add(ns, ins.a, ins.b)
      [] ins.k = "addf32" -> AddF32(ns, ins.a, ins.v)
      [] ins.k = "mul" -> Mul(ns, ins.a, ins.b)
      [] ins.k = "f32mul" -> F32Mul(ns, ins.v, ins.b)
      [] ins.k = "tanh" -> Tanh(ns, ins.a)

\* One statement of main().
MainStep ==
    /\ driver = "main" /\ panicked = 0 /\ pc <= Len(MainProg)
    /\ LET ins == MainProg[pc]
       IN  CASE ins.k = "print" ->
                  /\ pc' = pc + 1
                  /\ UNCHANGED <<nodes, panicked, root, applied>>
             [] ins.k = "seed" ->
                  /\ nodes' = SetGrad(nodes, ins.a, ins.v)
                  /\ root' = ins.a
                  /\ pc' = pc + 1
                  /\ UNCHANGED <<panicked, applied>>
             [] ins.k = "calc" ->
                  IF UnwrapPanics(nodes, ins.a)
                  THEN /\ panicked' = ins.a
                       /\ UNCHANGED <<nodes, applied, pc, root>>
                  ELSE /\ nodes' = MainCalcGrad(nodes, ins.a)
                       /\ applied' = Append(applied, Call(nodes, ins.a))
                       /\ pc' = pc + 1
                       /\ UNCHANGED <<panicked, root>>
             [] OTHER ->
                  /\ nodes' = Append(nodes, MainBuilt(nodes, ins))
                  /\ pc' = pc + 1
                  /\ UNCHANGED <<panicked, root, applied>>
    /\ UNCHANGED driver

Next ==
    \/ \E v \in LibValues : OpNew(v)
    \/ \E l \in Ids, r \in Ids : OpAdd(l, r)
    \/ \E l \in Ids, c \in LibConsts : OpAddF32(l, c)
    \/ \E c \in LibConsts, r \in Ids : OpF32Add(c, r)
    \/ \E l \in Ids, r \in Ids : OpMul(l, r)
    \/ \E l \in Ids, c \in LibConsts : OpMulF32(l, c)
    \/ \E c \in LibConsts, r \in Ids : OpF32Mul(c, r)
    \/ \E l \in Ids : OpTanh(l)
    \/ \E l \in Ids, n \in LibExps : OpPowi(l, n)
    \/ \E l \in Ids, r \in Ids : OpDiv(l, r)
    \/ \E i \in Ids : Seed(i)
    \/ \E i \in Ids : CalcGradCall(i)
    \/ MainStep

Spec == Init /\ [][Next]_vars

(***************************************************************************)
(* Properties                                                              *)
(***************************************************************************)
\* This step is a calc_grad call on nodes[i] that returns.
Returns(i) == applied' = Append(applied, Call(nodes, i))

BothParents(ns, i) == ns[i].lhs_parent # NoParent /\ ns[i].rhs_parent # NoParent

\* nodes[i] was built from one Scalar and one plain f32.
OneParent(ns, i) ==
    /\ ns[i].op.tag \in {"Add", "Mul"}
    /\ (ns[i].lhs_parent = NoParent) # (ns[i].rhs_parent = NoParent)

\* The gradients after adding cl to the left and then cr to the right parent of ns[i].
Routed(ns, i, cl, cr) ==
    LET l == ns[i].lhs_parent
        r == ns[i].rhs_parent
        s1 == [ns EXCEPT ![l].grad = FAdd(ns[l].grad, cl)]
    IN  [s1 EXCEPT ![r].grad = FAdd(s1[r].grad, cr)]

\* C1: a calc_grad call on out = l * r, both Scalars, with g = out.grad, adds
\* g * r.val to l.grad and g * l.val to r.grad.
C1_MultiplyRule ==
    [][\A i \in Ids :
         (Returns(i) /\ nodes[i].op.tag = "Mul" /\ BothParents(nodes, i)) =>
            nodes' = Routed(nodes, i,
                            FMul(nodes[i].grad, nodes[nodes[i].rhs_parent].val),
                            FMul(nodes[i].grad, nodes[nodes[i].lhs_parent].val))]_vars

\* C2: a calc_grad call on out = l / r, both Scalars, r.val # 0, with g = out.grad,
\* adds g * (1 / r.val) to l.grad and g * (-l.val / r.val^2) to r.grad.
C2_DivideRule ==
    [][\A i \in Ids :
         (/\ Returns(i) /\ nodes[i].op.tag = "Div" /\ BothParents(nodes, i)
          /\ ~IsZero(nodes[nodes[i].rhs_parent].val)) =>
            LET g == nodes[i].grad
                lv == nodes[nodes[i].lhs_parent].val
                rv == nodes[nodes[i].rhs_parent].val
            IN  nodes' = Routed(nodes, i,
                                FMul(g, FDiv(One, rv)),
                                FMul(g, FDiv(FNeg(lv), FMul(rv, rv))))]_vars

\* C3: a calc_grad call on out = l.powi(n), with g = out.grad, adds
\* g * n * l.val^(n-1) to l.grad.
C3_PowerRule ==
    [][\A i \in Ids :
         (Returns(i) /\ nodes[i].op.tag = "Powi") =>
            LET g == nodes[i].grad
                l == nodes[i].lhs_parent
                n == nodes[i].op.i
            IN  nodes' = [nodes EXCEPT ![l].grad =
                            FAdd(nodes[l].grad,
                                 FMul(FMul(g, F(n)), FPowi(nodes[l].val, n - 1)))]]_vars

\* C4: for add and multiply of a Scalar and a plain f32, the f32 on the left and on
\* the right give the same value, and calc_grad on the result does not fail.
C4_ConstOperandUsable ==
    /\ \A p \in Ids : \A c \in LibConsts :
         Small(nodes[p].val) =>
            /\ AddF32(nodes, p, c).val = F32Add(nodes, c, p).val
            /\ MulF32(nodes, p, c).val = F32Mul(nodes, c, p).val
    /\ \A i \in Ids : OneParent(nodes, i) => panicked # i

\* C7: every Scalar whose op is Add, Mul or Div has both parents.
C7_BinaryOpsHaveBothParents ==
    \A i \in Ids : nodes[i].op.tag \in {"Add", "Mul", "Div"} => BothParents(nodes, i)

\* The Scalars of the root's graph that have nodes[q] as a parent.
Consumers(q) == {c \in Reach(nodes, root) : q \in Parents(nodes, c)}

\* The calls so far went through the root's graph in a reverse-topological order:
\* no Scalar twice, and each only after all its consumers.
ReverseTopological ==
    \A k \in 1..Len(applied) :
       /\ applied[k].n \in Reach(nodes, root)
       /\ \A j \in 1..(k - 1) : applied[j].n # applied[k].n
       /\ \A c \in Consumers(applied[k].n) : \E j \in 1..(k - 1) : applied[j].n = c

\* C5 (as claimed): from a root seeded with 1.0 the derivative rules are applied in
\* a reverse-topological order whoever drives the pass: no Scalar's rule twice, and
\* a Scalar's rule only after the rule of every one of its consumers.
C5_AutomaticOrder == ReverseTopological

\* C5 (amended): the order is the caller's.  The calls main() makes on the neuron
\* are in a reverse-topological order, and when main() is done every Scalar
\* reachable from o has had its rule applied exactly once.
C5_MainOrder ==
    driver = "main" =>
       /\ ReverseTopological
       /\ MainDone => {applied[k].n : k \in 1..Len(applied)} = Reach(nodes, root)

C5_MainOrderWitness ==
    /\ MainDone /\ panicked = 0 /\ root # 0
    /\ Len(applied) = Cardinality(Reach(nodes, root))
    /\ \E q \in Ids : Consumers(q) # {}

\* C6 (as claimed): a divide whose right operand has value 0 raises DivisionByZero
\* and creates no Scalar.
C6_DivisionByZeroRaises ==
    \A i \in Ids : nodes[i].op.tag = "Div" => ~IsZero(nodes[nodes[i].rhs_parent].val)

\* C6 (amended): a divide whose right operand has value 0 raises nothing; it creates
\* a Div Scalar with both parents whose value is NaN when the left value is 0 or
\* NaN, and else an infinity with the product of the operands' signs.
C6_DivisionByZeroNonFinite ==
    \A i \in Ids :
       nodes[i].op.tag = "Div" =>
          /\ BothParents(nodes, i)
          /\ LET lv == nodes[nodes[i].lhs_parent].val
                 rv == nodes[nodes[i].rhs_parent].val
             IN  IsZero(rv) =>
                    nodes[i].val = IF IsZero(lv) \/ IsNaN(lv) THEN NaN ELSE Inf(lv.s * rv.s)

C6_DivisionByZeroWitness ==
    \E i \in Ids :
       /\ nodes[i].op.tag = "Div"
       /\ IsZero(nodes[nodes[i].rhs_parent].val)
       /\ IsInf(nodes[i].val)

\* The tolerance of the approximate equalities of the neuron example.
Tol == Q(1, 1000)

Rule(ns, i) == IF driver = "main" THEN MainCalcGrad(ns, i) ELSE CalcGrad(ns, i)

\* ns with every grad 0.0, but that of ns[i], which is g.
FromZero(ns, i, g) == [j \in 1..Len(ns) |-> [ns[j] EXCEPT !.grad = IF j = i THEN g ELSE Zero]]

\* What each applied call contributes: Alone(n)[k][q].grad is the gradient the k-th
\* call leaves in a nodes[q] that starts from 0.0, for the first n calls.
RECURSIVE Alone(_)
Alone(n) ==
    IF n = 0 THEN <<>>
    ELSE Append(Alone(n - 1), Rule(FromZero(nodes, applied[n].n, applied[n].g), applied[n].n))

\* The calls that contribute to nodes[q].
Contributing(q) == {k \in 1..Len(applied) : q \in Parents(nodes, applied[k].n)}

\* acc plus the contributions to nodes[q] of the calls ks is total, in whatever order
\* the contributions are added.
RECURSIVE SumsToQ(_, _, _, _, _)
SumsToQ(c, q, ks, acc, total) ==
    IF ks = {} THEN acc = total
    ELSE \A k \in ks : SumsToQ(c, q, ks \ {k}, FAdd(acc, c[k][q].grad), total)

\* Every gradient is its seed plus the contributions c of the applied calls.
SumsOfAll(c) ==
    \A q \in Ids :
       SumsToQ(c, q, Contributing(q), IF q = root THEN One ELSE Zero, nodes[q].grad)

\* From before to after the gradient of each of the parents ps has grown by the
\* contribution in alone, and no other gradient has changed.
AddsTo(before, after, alone, ps) ==
    \A q \in DOMAIN before :
       after[q].grad = IF q \in ps THEN FAdd(before[q].grad, alone[q].grad)
                       ELSE before[q].grad

\* C9: a calc_grad call leaves every parent's gradient at its prior value plus the
\* call's contribution (and the other gradients as they were), and every Scalar's
\* gradient is its seed plus the sum of the contributions of all the calls, in
\* whatever order they are summed.
C9_AdditiveAccumulation ==
    /\ [][Len(applied') > Len(applied) =>
            \A i \in Ids :
               Returns(i) => AddsTo(nodes, nodes', Rule(FromZero(nodes, i, nodes[i].grad), i),
                                    Parents(nodes, i))]_vars
    /\ [](SumsOfAll(Alone(Len(applied))))

\* A Scalar that is both operands of one applied consumer and an operand of another.
C9_FanOutWitness ==
    \E q \in Ids : \E j, k \in 1..Len(applied) :
       /\ applied[j].n # applied[k].n
       /\ nodes[applied[j].n].lhs_parent = q /\ nodes[applied[j].n].rhs_parent = q
       /\ q \in Parents(nodes, applied[k].n)
       /\ ~IsZero(applied[j].g) /\ ~IsZero(applied[k].g)
       /\ IsFinite(nodes[q].grad) /\ nodes[q].grad.n > 1

\* C10: until a grad is set or calc_grad is called every Scalar has grad 0.0, and
\* an operation that builds a Scalar leaves the Scalars there were as they were.
C10_BuildersPure ==
    /\ [](root = 0 => \A i \in Ids : nodes[i].grad = Zero)
    /\ [][Len(nodes') > Len(nodes) => SubSeq(nodes', 1, Len(nodes)) = nodes]_vars

C10_BuildersWitness ==
    /\ root = 0
    /\ Len(nodes) = MaxNodes
    /\ \E i \in Ids : nodes[i].op.tag = "Div"
    /\ \E i \in Ids : OneParent(nodes, i)

====
